---- MODULE Spec2Model ----
(***************************************************************************)
(* Model of the transaction-pool queues of txpool/queue.go:                *)
(*   accountQueue / minNonceQueue  - per-account heap ordered by nonce     *)
(*   pricedQueue  / maxPriceQueue  - global heap ordered by price          *)
(* The heaps are driven by Go's container/heap (Init, Push, Pop, up,       *)
(* down), which calls back into Len/Less/Swap/Push/Pop of the queue.       *)
(* Indices are 0-based as in the Go code; At(s, i) reads element i.        *)
(***************************************************************************)
EXTENDS Integers, Sequences, FiniteSets, TLC

(***************************************************************************)
(* Bounds of the model.                                                    *)
(***************************************************************************)
MaxLen == 3
MaxNonce == 2
MaxPrice == 2

(***************************************************************************)
(* Transaction records (types.Transaction).  A nil *big.Int is NilInt.     *)
(***************************************************************************)
NilInt == -1

LegacyTx == "LegacyTx"
DynamicFeeTx == "DynamicFeeTx"

Transaction(from, nonce, type, gasPrice, gasTipCap, gasFeeCap) ==
    [goType |-> "*types.Transaction", From |-> from, Nonce |-> nonce,
     Type |-> type, GasPrice |-> gasPrice,
     GasTipCap |-> gasTipCap, GasFeeCap |-> gasFeeCap]

\* a value handed to heap.Push that is not a *types.Transaction
OtherValue == [goType |-> "string"]

\* the type assertion  x.(*types.Transaction)
IsTransaction(x) == x.goType = "*types.Transaction"

\* big.Int.Cmp
BigCmp(x, y) == IF x < y THEN -1 ELSE IF x > y THEN 1 ELSE 0

\* common.BigMin
BigMin(x, y) == IF x > y THEN y ELSE x

At(s, i) == s[i + 1]

(***************************************************************************)
(* types.Transaction fee accessors.                                        *)
(***************************************************************************)
GetGasTipCap(t) == IF t.Type = DynamicFeeTx THEN t.GasTipCap ELSE t.GasPrice

GetGasFeeCap(t) == IF t.Type = DynamicFeeTx THEN t.GasFeeCap ELSE t.GasPrice

\* EffectiveGasTip that ignores the fee cap
EffectiveGasTipNoCap(t, baseFee) == GetGasTipCap(t)

EffectiveGasTip(t, baseFee) ==
    IF baseFee = 0
    THEN GetGasTipCap(t)
    ELSE BigMin(GetGasTipCap(t), GetGasFeeCap(t) - baseFee)

\* GetGasPrice that never uses the existing gas price
GetGasPriceNoExisting(t, baseFee) ==
    IF baseFee = 0 THEN 0
    ELSE IF t.GasFeeCap = NilInt \/ t.GasTipCap = NilInt THEN 0
    ELSE BigMin(t.GasTipCap + baseFee, t.GasFeeCap)

\* a nil or zero GasPrice is "not present" (BitLen() = 0); nil caps count as 0
GetGasPrice(t, baseFee) ==
    LET gasFeeCap == IF t.GasFeeCap # NilInt THEN t.GasFeeCap ELSE 0
        gasTipCap == IF t.GasTipCap # NilInt THEN t.GasTipCap ELSE 0
    IN  IF t.GasPrice # NilInt /\ t.GasPrice # 0 THEN t.GasPrice
        ELSE IF baseFee = 0 THEN 0
        ELSE IF gasFeeCap # 0 \/ gasTipCap # 0
        THEN BigMin(gasTipCap + baseFee, gasFeeCap)
        ELSE 0

(***************************************************************************)
(* Nil dereferences.  x.Cmp(y) on two equal pointers (two nils included)    *)
(* returns 0 without reading either; with exactly one nil operand it reads *)
(* through the nil pointer and panics.  new(big.Int).Set(nil) and          *)
(* new(big.Int).Sub(nil, y) panic.                                         *)
(***************************************************************************)
BigCmpPanics(x, y) == (x = NilInt) # (y = NilInt)

EffectiveGasTipPanics(t, baseFee) ==
    baseFee # 0 /\ (GetGasTipCap(t) = NilInt \/ GetGasFeeCap(t) = NilInt)

(***************************************************************************)
(* The heap interfaces.  A heap value is [kind, txs, baseFee]:             *)
(* kind "minNonceQueue" (baseFee unused) or "maxPriceQueue".               *)
(***************************************************************************)
MinNonceHeap(txs) == [kind |-> "minNonceQueue", txs |-> txs, baseFee |-> 0]

MaxPriceHeap(baseFee, txs) ==
    [kind |-> "maxPriceQueue", txs |-> txs, baseFee |-> baseFee]

\* minNonceQueue.Less without the gas-price tie-break
minNonceQueueLessNoTie(txs, i, j) == At(txs, i).Nonce < At(txs, j).Nonce

minNonceQueueLess(txs, i, j) ==
    IF At(txs, i).Nonce = At(txs, j).Nonce
    THEN BigCmp(At(txs, i).GasPrice, At(txs, j).GasPrice) > 0
    ELSE At(txs, i).Nonce < At(txs, j).Nonce

\* cmp that never compares effective tips
cmpNoEffectiveTip(a, b, baseFee) ==
    LET c2 == BigCmp(GetGasFeeCap(a), GetGasFeeCap(b))
    IN  IF c2 # 0 THEN c2 ELSE BigCmp(GetGasTipCap(a), GetGasTipCap(b))

cmp(a, b, baseFee) ==
    LET c1 == BigCmp(EffectiveGasTip(a, baseFee), EffectiveGasTip(b, baseFee))
        c2 == BigCmp(GetGasFeeCap(a), GetGasFeeCap(b))
    IN  IF baseFee > 0 /\ c1 # 0 THEN c1
        ELSE IF c2 # 0 THEN c2
        ELSE BigCmp(GetGasTipCap(a), GetGasTipCap(b))

\* whether cmp(a, b, baseFee) panics, following its statements in order
cmpPanics(a, b, baseFee) ==
    IF baseFee > 0 /\ (EffectiveGasTipPanics(a, baseFee)
                          \/ EffectiveGasTipPanics(b, baseFee)) THEN TRUE
    ELSE IF baseFee > 0
              /\ BigCmp(EffectiveGasTip(a, baseFee), EffectiveGasTip(b, baseFee)) # 0
    THEN FALSE
    ELSE IF BigCmpPanics(GetGasFeeCap(a), GetGasFeeCap(b)) THEN TRUE
    ELSE IF BigCmp(GetGasFeeCap(a), GetGasFeeCap(b)) # 0 THEN FALSE
    ELSE BigCmpPanics(GetGasTipCap(a), GetGasTipCap(b))

\* maxPriceQueue.Less with <= on the nonces
maxPriceQueueLessOrEqual(h, i, j) ==
    LET c == cmp(At(h.txs, i), At(h.txs, j), h.baseFee)
    IN  IF c = -1 THEN FALSE
        ELSE IF c = 1 THEN TRUE
        ELSE At(h.txs, i).Nonce <= At(h.txs, j).Nonce

\* maxPriceQueue.Less without the nonce tie-break
maxPriceQueueLessNoNonce(h, i, j) ==
    cmp(At(h.txs, i), At(h.txs, j), h.baseFee) = 1

maxPriceQueueLess(h, i, j) ==
    LET c == cmp(At(h.txs, i), At(h.txs, j), h.baseFee)
    IN  IF c = -1 THEN FALSE
        ELSE IF c = 1 THEN TRUE
        ELSE At(h.txs, i).Nonce < At(h.txs, j).Nonce

\* maxPriceQueue.Less panics exactly when its call of cmp does
maxPriceQueueLessPanics(h, i, j) ==
    cmpPanics(At(h.txs, i), At(h.txs, j), h.baseFee)

Less(h, i, j) ==
    IF h.kind = "minNonceQueue"
    THEN minNonceQueueLess(h.txs, i, j)
    ELSE maxPriceQueueLess(h, i, j)

\* Swap as two assignments in sequence: both cells end up holding element j
SwapOverwrite(h, i, j) ==
    [h EXCEPT !.txs = [h.txs EXCEPT ![i + 1] = At(h.txs, j)]]

\* minNonceQueue.Swap / maxPriceQueue.Swap
Swap(h, i, j) ==
    [h EXCEPT !.txs = [h.txs EXCEPT ![i + 1] = At(h.txs, j),
                                    ![j + 1] = At(h.txs, i)]]

\* a Push that appends the record twice
QueuePushTwice(h, x) ==
    IF ~IsTransaction(x) THEN h ELSE [h EXCEPT !.txs = Append(Append(h.txs, x), x)]

\* minNonceQueue.Push / maxPriceQueue.Push: a value of another type is dropped
QueuePush(h, x) ==
    IF ~IsTransaction(x) THEN h ELSE [h EXCEPT !.txs = Append(h.txs, x)]

\* a Pop that also resets the base fee
QueuePopResetsBaseFee(h) ==
    [h |-> [h EXCEPT !.txs = SubSeq(h.txs, 1, Len(h.txs) - 1), !.baseFee = 0],
     x |-> At(h.txs, Len(h.txs) - 1),
     panic |-> FALSE]

\* minNonceQueue.Pop / maxPriceQueue.Pop: the new heap and the removed last element
QueuePop(h) ==
    [h |-> [h EXCEPT !.txs = SubSeq(h.txs, 1, Len(h.txs) - 1)],
     x |-> At(h.txs, Len(h.txs) - 1),
     panic |-> FALSE]

(***************************************************************************)
(* container/heap as called by queue.go.                                   *)
(***************************************************************************)
\* Go's integer division truncates toward zero: (j - 1) / 2 with j = -1 is -1
Parent(j) == IF j - 1 < 0 THEN -((1 - j) \div 2) ELSE (j - 1) \div 2

RECURSIVE up(_, _)
up(h, j) ==
    LET i == Parent(j)
    IN  IF i = j \/ ~Less(h, j, i) THEN h ELSE up(Swap(h, i, j), i)

RECURSIVE down(_, _, _)
down(h, i, n) ==
    LET j1 == 2 * i + 1
        j2 == j1 + 1
        j  == IF j2 < n /\ Less(h, j2, j1) THEN j2 ELSE j1
    IN  IF j1 >= n THEN h
        ELSE IF ~Less(h, j, i) THEN h
        ELSE down(Swap(h, i, j), j, n)

RECURSIVE heapInitFrom(_, _)
heapInitFrom(h, i) ==
    IF i < 0 THEN h ELSE heapInitFrom(down(h, i, Len(h.txs)), i - 1)

\* heap.Init that leaves the sequence as it is
heapInitNone(h) == h

heapInit(h) == heapInitFrom(h, (Len(h.txs) \div 2) - 1)

\* heap.Push without the call of up
heapPushNoUp(h, x) == QueuePush(h, x)

heapPush(h, x) ==
    LET pushed == QueuePush(h, x) IN up(pushed, Len(pushed.txs) - 1)

\* heap.Pop; on an empty heap Swap(0, -1) indexes out of range and panics
heapPop(h) ==
    IF Len(h.txs) - 1 < 0
    THEN [h |-> h, x |-> OtherValue, panic |-> TRUE]
    ELSE QueuePop(down(Swap(h, 0, Len(h.txs) - 1), 0, Len(h.txs) - 1))

(***************************************************************************)
(* accountQueue operations (the lock is modelled separately below).        *)
(* Each returns the new queue contents, the returned list (a nil result is  *)
(* the empty list) and whether the call panicked.                          *)
(***************************************************************************)
Result(q, r, panic) ==
    [q |-> q, ret |-> r, err |-> IF panic THEN "panic" ELSE "none"]

\* transaction, ok := heap.Pop(...).(*types.Transaction); if !ok return nil
popAssert(r) ==
    IF r.panic THEN Result(r.h, << >>, TRUE)
    ELSE IF ~IsTransaction(r.x) THEN Result(r.h, << >>, FALSE)
    ELSE Result(r.h, << r.x >>, FALSE)

\* the body of pop after the length check: heap.Pop and the type assertion
popHead(h) == popAssert(heapPop(h))

\* a result on the heap [kind, txs, baseFee] as a result on its slice
OnSlice(r) == Result(r.q.txs, r.ret, r.err = "panic")

newAccountQueue == heapInit(MinNonceHeap(<< >>)).txs

length(q) == Len(q)

peek(q) == IF length(q) = 0 THEN << >> ELSE << At(q, 0) >>

\* a peek that removes the head it returns
peekCallPops(q) == OnSlice(popHead(MinNonceHeap(q)))

\* the call q.peek(): the queue after it and the value returned
peekCall(q) == Result(q, peek(q), FALSE)

\* the call q.length(): the queue after it and the count returned
lengthCall(q) == [q |-> q, n |-> length(q)]

\* pop without the length check
popUnchecked(q) == OnSlice(popHead(MinNonceHeap(q)))

pop(q) ==
    IF length(q) = 0
    THEN Result(q, << >>, FALSE)
    ELSE OnSlice(popHead(MinNonceHeap(q)))

push(q, tx) == heapPush(MinNonceHeap(q), tx).txs

\* pruned = append(pruned, q.pop())
pruneAppend(pruned, p) == Result(p.q, pruned \o p.ret, p.err = "panic")

\* a loop test that does not look for the empty queue
pruneBreaksOnlyNonce(tx, nonce) == tx # << >> /\ tx[1].Nonce >= nonce

\* a loop test with > in place of >=
pruneBreaksStrict(tx, nonce) == tx = << >> \/ tx[1].Nonce > nonce

\* the loop test: tx := q.peek(); tx == nil || tx.Nonce >= nonce
pruneBreaks(tx, nonce) == tx = << >> \/ tx[1].Nonce >= nonce

\* prune with an if in place of the for: at most one removal
pruneLoopOnce(q, nonce, pruned) ==
    IF pruneBreaks(peek(q), nonce)
    THEN Result(q, pruned, FALSE)
    ELSE pruneAppend(pruned, pop(q))

RECURSIVE pruneLoop(_, _, _)
pruneContinue(r, nonce) ==
    IF r.err = "panic" THEN r ELSE pruneLoop(r.q, nonce, r.ret)

pruneLoop(q, nonce, pruned) ==
    IF pruneBreaks(peek(q), nonce)
    THEN Result(q, pruned, FALSE)
    ELSE pruneContinue(pruneAppend(pruned, pop(q)), nonce)

prune(q, nonce) == pruneLoop(q, nonce, << >>)

\* clear that returns only the head
clearReturnsHead(q) == Result(<< >>, peek(q), FALSE)

clear(q) == Result(<< >>, q, FALSE)

(***************************************************************************)
(* pricedQueue operations.  A pricedQueue is its maxPriceQueue             *)
(* [baseFee, txs].                                                         *)
(***************************************************************************)
newPricesQueue(baseFee, initialTxs) == heapInit(MaxPriceHeap(baseFee, initialTxs))

pricedLength(h) == Len(h.txs)

\* the call q.length() on a pricedQueue: the queue after it and the count
pricedLengthCall(h) == [q |-> h, n |-> pricedLength(h)]

pricedPush(h, tx) == heapPush(h, tx)

pricedPop(h) ==
    IF pricedLength(h) = 0 THEN Result(h, << >>, FALSE) ELSE popHead(h)

(***************************************************************************)
(* State of the sequential model: one queue object per run, constructed    *)
(* in the initial state, and the last call made on it.                     *)
(***************************************************************************)
VARIABLES
    obj,     \* which object the run constructed: "accountQueue" or "pricedQueue"
    aq,      \* accountQueue.queue
    pq,      \* pricedQueue.queue: [kind, txs, baseFee]
    call,    \* the last call: [op, nonce, in, err]
    ret,     \* the transactions that call returned (a nil result is << >>)
    retN,    \* the count that call returned (length), else 0
    d1, d2,      \* two pricedQueues built from one multiset of records
    out1, out2,  \* the records popped from d1 and from d2, in order
    wk,      \* per worker: [pc, q, write, tx, v, rel]
    rw,      \* per accountQueue: its sync.RWMutex [writer, readers]
    wLock,   \* per accountQueue: the wLock flag
    qs,      \* per accountQueue: its queue
    popped,  \* per accountQueue: what the final drain popped, in order
    ca, cb, cc,  \* three records handed to the comparator
    cf,      \* the base fee handed with them
    cres,    \* what the last call on them produced: [op, panic, val]
    lPushed, \* the records a caller pushes to an accountQueue, in push order
    lIn,     \* those not pushed yet
    lQ,      \* the accountQueue
    lMode,   \* the loop run after the pushes: "drain" (pop until empty) or "prune"
    lN,      \* the threshold of prune
    lPc,     \* "push", "loop" or "done"
    lOut,    \* the records the loop removed so far, in order
    lIters,  \* the number of removals the loop made
    lLen0,   \* length() when the loop started
    sq,      \* a pricedQueue two workers share: its maxPriceQueue
    sw,      \* per worker: [op, tx, pc, i, n, ret]
    sLock,   \* the holder of the manager's coarse lock, or "free"
    sCoarse, \* whether the workers take the coarse lock around push / pop
    sInit,   \* the initial batch the shared queue was built from
    bObj,    \* the object whose backing array is followed
    bQueue,  \* its slice q.queue / q.txs: [arr, len], cap is Len(arr)
    bBase,   \* the base fee of the pricedQueue
    bHeld,   \* the slice the caller holds: the initial batch, or what clear returned
    bShared, \* whether bHeld and bQueue point into the same array
    bGiven,  \* the records of bHeld when it was handed over
    bCall    \* the last call

seqVars == << obj, aq, pq, call, ret, retN >>

detVars == << d1, d2, out1, out2 >>

lockVars == << wk, rw, wLock, qs, popped >>

cmpVars == << ca, cb, cc, cf, cres >>

loopVars == << lPushed, lIn, lQ, lMode, lN, lPc, lOut, lIters, lLen0 >>

sharedVars == << sq, sw, sLock, sCoarse, sInit >>

sliceVars == << bObj, bQueue, bBase, bHeld, bShared, bGiven, bCall >>

\* the state of the comparator, loop, shared-queue and backing-array models
extraVars == << cmpVars, loopVars, sharedVars, sliceVars >>

\* what the comparator model leaves alone
notCmpVars == << seqVars, detVars, lockVars, loopVars, sharedVars, sliceVars >>

\* what the loop model leaves alone
notLoopVars == << seqVars, detVars, lockVars, cmpVars, sharedVars, sliceVars >>

\* what the shared-queue model leaves alone
notSharedVars == << seqVars, detVars, lockVars, cmpVars, loopVars, sliceVars >>

\* what the backing-array model leaves alone
notSliceVars == << seqVars, detVars, lockVars, cmpVars, loopVars, sharedVars >>

\* what the sequential model leaves alone
otherVars == << detVars, lockVars, extraVars >>

vars == << seqVars, detVars, lockVars, extraVars >>

\* records an account queue is fed: legacy transactions of one account
AccountTxs ==
    { Transaction("A", n, LegacyTx, p, NilInt, NilInt) :
        n \in 0..MaxNonce, p \in 1..MaxPrice }

\* fee fields <<type, gasPrice, gasTipCap, gasFeeCap>> (feeCap >= tipCap) chosen
\* so that every branch of cmp decides some pair and full ties exist
FeeForms ==
    { << LegacyTx, 2, NilInt, NilInt >>,
      << DynamicFeeTx, NilInt, 1, 2 >>,
      << DynamicFeeTx, NilInt, 2, 2 >>,
      << DynamicFeeTx, NilInt, 2, 3 >>,
      << DynamicFeeTx, NilInt, 1, 4 >> }

Senders == { "A", "B" }

TxsOf(forms) ==
    { Transaction(s, n, f[1], f[2], f[3], f[4]) :
        s \in Senders, n \in 0..1, f \in forms }

\* records the priced queue is fed
PricedTxs == TxsOf(FeeForms)

BaseFees == { 0, 1 }

SeqsUpTo(S, n) == UNION { [1..k -> S] : k \in 0..n }

Call(op, nonce, in, err) == [op |-> op, nonce |-> nonce, in |-> in, err |-> err]

NoPriced == MaxPriceHeap(0, << >>)

\* the sequential model is not running
SeqIdle ==
    /\ obj = "none"
    /\ aq = << >>
    /\ pq = NoPriced
    /\ call = Call("none", 0, << >>, "none")
    /\ ret = << >>
    /\ retN = 0

\* the two-queue model is not running
DetIdle == d1 = NoPriced /\ d2 = NoPriced /\ out1 = << >> /\ out2 = << >>

Workers == { "w1", "w2", "w3" }

\* the order in which a sequential reference run makes the workers' calls
WorkerOrder == << "w1", "w2", "w3" >>

\* two accountQueue instances
Queues == { "qa", "qb" }

Worker(pc, q, write, tx) ==
    [pc |-> pc, q |-> q, write |-> write, tx |-> tx, v |-> 0, rel |-> "none"]

\* the worker model is not running
LockIdle ==
    /\ wk = [w \in Workers |-> Worker("none", "qa", FALSE, << >>)]
    /\ rw = [q \in Queues |-> [writer |-> FALSE, readers |-> 0]]
    /\ wLock = [q \in Queues |-> 0]
    /\ qs = [q \in Queues |-> << >>]
    /\ popped = [q \in Queues |-> << >>]

\* a record with no fee field populated
NoTx == Transaction("A", 0, LegacyTx, NilInt, NilInt, NilInt)

NoResult == [op |-> "none", panic |-> FALSE, val |-> << >>]

\* the comparator model is not running
CmpIdle == ca = NoTx /\ cb = NoTx /\ cc = NoTx /\ cf = 0 /\ cres = NoResult

\* the loop model is not running
LoopIdle ==
    /\ lPushed = << >>
    /\ lIn = << >>
    /\ lQ = << >>
    /\ lMode = "none"
    /\ lN = 0
    /\ lPc = "none"
    /\ lOut = << >>
    /\ lIters = 0
    /\ lLen0 = 0

SharedWorkers == { "p1", "p2" }

SharedWorker(op, tx, pc) ==
    [op |-> op, tx |-> tx, pc |-> pc, i |-> 0, n |-> 0, ret |-> << >>]

\* the shared-queue model is not running
SharedIdle ==
    /\ sq = NoPriced
    /\ sw = [w \in SharedWorkers |-> SharedWorker("none", << >>, "none")]
    /\ sLock = "free"
    /\ sCoarse = FALSE
    /\ sInit = << >>

\* a slice header: the array it points into and its length
Slice(arr, len) == [arr |-> arr, len |-> len]

\* the nil slice
NilSlice == Slice(<< >>, 0)

\* the backing-array model is not running
SliceIdle ==
    /\ bObj = "none"
    /\ bQueue = NilSlice
    /\ bBase = 0
    /\ bHeld = NilSlice
    /\ bShared = FALSE
    /\ bGiven = << >>
    /\ bCall = "none"

ExtraIdle == CmpIdle /\ LoopIdle /\ SharedIdle /\ SliceIdle

AqInit ==
    /\ obj = "accountQueue"
    /\ aq = newAccountQueue
    /\ pq = NoPriced
    /\ call = Call("newAccountQueue", 0, << >>, "none")
    /\ ret = << >>
    /\ retN = 0

PqInit ==
    \E baseFee \in BaseFees, initialTxs \in SeqsUpTo(PricedTxs, MaxLen) :
        /\ obj = "pricedQueue"
        /\ aq = << >>
        /\ pq = newPricesQueue(baseFee, initialTxs)
        /\ call = Call("newPricesQueue", 0, initialTxs, "none")
        /\ ret = << >>
        /\ retN = 0

Init == (AqInit \/ PqInit) /\ DetIdle /\ LockIdle /\ ExtraIdle

AqPush ==
    \E tx \in AccountTxs :
        /\ obj = "accountQueue"
        /\ Len(aq) < MaxLen
        /\ aq' = push(aq, tx)
        /\ call' = Call("push", 0, << tx >>, "none")
        /\ ret' = << >>
        /\ retN' = 0
        /\ UNCHANGED << obj, pq, otherVars >>

\* heap.Push(&q.queue, x) with x of another type
AqHeapPushOther ==
    /\ obj = "accountQueue"
    /\ aq' = heapPush(MinNonceHeap(aq), OtherValue).txs
    /\ call' = Call("heap.Push", 0, << OtherValue >>, "none")
    /\ ret' = << >>
    /\ retN' = 0
    /\ UNCHANGED << obj, pq, otherVars >>

AqPeek ==
    /\ obj = "accountQueue"
    /\ \E r \in { peekCall(aq) } :
          /\ aq' = r.q
          /\ call' = Call("peek", 0, << >>, r.err)
          /\ ret' = r.ret
    /\ retN' = 0
    /\ UNCHANGED << obj, pq, otherVars >>

AqPop ==
    /\ obj = "accountQueue"
    /\ \E r \in { pop(aq) } :
          /\ aq' = r.q
          /\ call' = Call("pop", 0, << >>, r.err)
          /\ ret' = r.ret
    /\ retN' = 0
    /\ UNCHANGED << obj, pq, otherVars >>

AqPrune ==
    \E n \in 0..(MaxNonce + 1) :
        /\ obj = "accountQueue"
        /\ \E r \in { prune(aq, n) } :
              /\ aq' = r.q
              /\ call' = Call("prune", n, << >>, r.err)
              /\ ret' = r.ret
        /\ retN' = 0
        /\ UNCHANGED << obj, pq, otherVars >>

AqClear ==
    /\ obj = "accountQueue"
    /\ \E r \in { clear(aq) } :
          /\ aq' = r.q
          /\ call' = Call("clear", 0, << >>, r.err)
          /\ ret' = r.ret
    /\ retN' = 0
    /\ UNCHANGED << obj, pq, otherVars >>

AqLength ==
    /\ obj = "accountQueue"
    /\ call' = Call("length", 0, << >>, "none")
    /\ ret' = << >>
    /\ \E r \in { lengthCall(aq) } : aq' = r.q /\ retN' = r.n
    /\ UNCHANGED << obj, pq, otherVars >>

PqPush ==
    \E tx \in PricedTxs :
        /\ obj = "pricedQueue"
        /\ pricedLength(pq) < MaxLen
        /\ pq' = pricedPush(pq, tx)
        /\ call' = Call("push", 0, << tx >>, "none")
        /\ ret' = << >>
        /\ retN' = 0
        /\ UNCHANGED << obj, aq, otherVars >>

\* heap.Push(q.queue, x) with x of another type
PqHeapPushOther ==
    /\ obj = "pricedQueue"
    /\ pq' = heapPush(pq, OtherValue)
    /\ call' = Call("heap.Push", 0, << OtherValue >>, "none")
    /\ ret' = << >>
    /\ retN' = 0
    /\ UNCHANGED << obj, aq, otherVars >>

PqPop ==
    /\ obj = "pricedQueue"
    /\ \E r \in { pricedPop(pq) } :
          /\ pq' = r.q
          /\ call' = Call("pop", 0, << >>, r.err)
          /\ ret' = r.ret
    /\ retN' = 0
    /\ UNCHANGED << obj, aq, otherVars >>

PqLength ==
    /\ obj = "pricedQueue"
    /\ call' = Call("length", 0, << >>, "none")
    /\ ret' = << >>
    /\ \E r \in { pricedLengthCall(pq) } : pq' = r.q /\ retN' = r.n
    /\ UNCHANGED << obj, aq, otherVars >>

Next ==
    \/ AqPush \/ AqHeapPushOther \/ AqPeek \/ AqPop \/ AqPrune \/ AqClear
    \/ AqLength
    \/ PqPush \/ PqHeapPushOther \/ PqPop \/ PqLength

Spec == Init /\ [][Next]_vars

(***************************************************************************)
(* Two pricedQueues constructed with one base fee from the same records    *)
(* in two orders, each then popped until empty.                            *)
(***************************************************************************)
\* the records of the two-queue model: both senders, two nonces, fee forms
\* with full ties across senders and across legacy / dynamic-fee records
DetTxs ==
    TxsOf({ << LegacyTx, 2, NilInt, NilInt >>,
            << DynamicFeeTx, NilInt, 2, 2 >>,
            << DynamicFeeTx, NilInt, 1, 4 >> })

IndexPerms(k) ==
    { p \in [1..k -> 1..k] : \A i, j \in 1..k : p[i] = p[j] => i = j }

DetInit ==
    /\ SeqIdle
    /\ LockIdle
    /\ ExtraIdle
    /\ \E baseFee \in BaseFees, initialTxs \in SeqsUpTo(DetTxs, MaxLen) :
          \E p \in IndexPerms(Len(initialTxs)) :
              /\ d1 = newPricesQueue(baseFee, initialTxs)
              /\ d2 = newPricesQueue(baseFee,
                          [i \in 1..Len(initialTxs) |-> initialTxs[p[i]]])
    /\ out1 = << >>
    /\ out2 = << >>

\* for q.length() > 0 { out = append(out, q.pop()) }
DetPop1 ==
    /\ pricedLength(d1) > 0
    /\ \E r \in { pricedPop(d1) } : d1' = r.q /\ out1' = out1 \o r.ret
    /\ UNCHANGED << d2, out2, seqVars, lockVars, extraVars >>

DetPop2 ==
    /\ pricedLength(d2) > 0
    /\ \E r \in { pricedPop(d2) } : d2' = r.q /\ out2' = out2 \o r.ret
    /\ UNCHANGED << d1, out1, seqVars, lockVars, extraVars >>

DetNext == DetPop1 \/ DetPop2

SpecDeterminism == DetInit /\ [][DetNext]_vars

(***************************************************************************)
(* Workers on two accountQueue instances.  Each worker makes one call      *)
(* q.lock(write), one operation (push under the write lock, peek under     *)
(* the read lock) and one call q.unlock(); the steps of different workers  *)
(* interleave.  When all workers are done the queues are popped until      *)
(* empty.                                                                  *)
(*   pc: "lock"    about to call q.Lock() / q.RLock()                      *)
(*       "store"   lock acquired, about to atomic.StoreUint32(&q.wLock, .) *)
(*       "op"      about to run the operation                              *)
(*       "up"      heap.Push: h.Push(x) done, about to up(h, h.Len()-1)    *)
(*       "unlock"  about to atomic.SwapUint32(&q.wLock, 0)                 *)
(*       "release" about to call q.Unlock() / q.RUnlock()                  *)
(*       "done", or "fatal" after releasing a mutex that is not held       *)
(***************************************************************************)
\* what the workers push: transactions of one account
LockTxs ==
    { Transaction("A", n, LegacyTx, 1, NilInt, NilInt) : n \in 0..MaxNonce }

\* one RWMutex shared by all queues
CanAcquireShared(q, write) ==
    \A o \in Queues : ~rw[o].writer /\ (write => rw[o].readers = 0)

\* RLock that does not wait for the writer
CanAcquireReaderBarges(q, write) ==
    write => (~rw[q].writer /\ rw[q].readers = 0)

\* sync.RWMutex of queue q: Lock() returns when there is no writer and no
\* reader, RLock() when there is no writer
CanAcquire(q, write) == ~rw[q].writer /\ (write => rw[q].readers = 0)

\* lock(true) that leaves the flag alone
lockFlagNeverSet(write) == 0

\* the value lock(write) stores in wLock
lockFlag(write) == IF write THEN 1 ELSE 0

\* the call unlock() makes, from the value it swapped out of wLock
unlockCall(v) == IF v = 1 THEN "Unlock" ELSE "RUnlock"

LockInit ==
    /\ SeqIdle
    /\ DetIdle
    /\ ExtraIdle
    /\ wk \in [Workers ->
                 { Worker("lock", q, FALSE, << >>) : q \in Queues }
                 \cup { Worker("lock", q, TRUE, << tx >>) :
                            q \in Queues, tx \in LockTxs }]
    /\ rw = [q \in Queues |-> [writer |-> FALSE, readers |-> 0]]
    /\ wLock = [q \in Queues |-> 0]
    /\ qs = [q \in Queues |-> newAccountQueue]
    /\ popped = [q \in Queues |-> << >>]

\* q.Lock() / q.RLock() returns
Acquire(w) ==
    /\ wk[w].pc = "lock"
    /\ CanAcquire(wk[w].q, wk[w].write)
    /\ rw' = [rw EXCEPT ![wk[w].q] =
                  IF wk[w].write
                  THEN [@ EXCEPT !.writer = TRUE]
                  ELSE [@ EXCEPT !.readers = @ + 1]]
    /\ wk' = [wk EXCEPT ![w].pc = "store"]
    /\ UNCHANGED << wLock, qs, popped, seqVars, detVars, extraVars >>

\* atomic.StoreUint32(&q.wLock, 1) / atomic.StoreUint32(&q.wLock, 0)
StoreFlag(w) ==
    /\ wk[w].pc = "store"
    /\ wLock' = [wLock EXCEPT ![wk[w].q] = lockFlag(wk[w].write)]
    /\ wk' = [wk EXCEPT ![w].pc = "op"]
    /\ UNCHANGED << rw, qs, popped, seqVars, detVars, extraVars >>

\* push, first half: heap.Push calls h.Push(x)
PushAppend(w) ==
    /\ wk[w].pc = "op"
    /\ wk[w].write
    /\ qs' = [qs EXCEPT ![wk[w].q] = QueuePush(MinNonceHeap(@), wk[w].tx[1]).txs]
    /\ wk' = [wk EXCEPT ![w].pc = "up"]
    /\ UNCHANGED << rw, wLock, popped, seqVars, detVars, extraVars >>

\* push, second half: heap.Push calls up(h, h.Len()-1)
PushUp(w) ==
    /\ wk[w].pc = "up"
    /\ qs' = [qs EXCEPT ![wk[w].q] = up(MinNonceHeap(@), Len(@) - 1).txs]
    /\ wk' = [wk EXCEPT ![w].pc = "unlock"]
    /\ UNCHANGED << rw, wLock, popped, seqVars, detVars, extraVars >>

\* peek under the read lock; the worker keeps what it saw
Peek(w) ==
    /\ wk[w].pc = "op"
    /\ ~wk[w].write
    /\ wk' = [wk EXCEPT ![w].pc = "unlock", ![w].tx = peek(qs[wk[w].q])]
    /\ UNCHANGED << rw, wLock, qs, popped, seqVars, detVars, extraVars >>

\* unlock, first half: atomic.SwapUint32(&q.wLock, 0)
SwapFlag(w) ==
    /\ wk[w].pc = "unlock"
    /\ wLock' = [wLock EXCEPT ![wk[w].q] = 0]
    /\ wk' = [wk EXCEPT ![w].pc = "release", ![w].v = wLock[wk[w].q]]
    /\ UNCHANGED << rw, qs, popped, seqVars, detVars, extraVars >>

\* whether the mutex is held in the mode the call releases
Releasable(m, c) == IF c = "Unlock" THEN m.writer ELSE m.readers > 0

\* unlock, second half: q.Unlock() or q.RUnlock(); releasing a mutex that is
\* not held in that mode is a fatal error of the runtime
Release(w) ==
    /\ wk[w].pc = "release"
    /\ rw' = [rw EXCEPT ![wk[w].q] =
                  IF ~Releasable(@, unlockCall(wk[w].v)) THEN @
                  ELSE IF unlockCall(wk[w].v) = "Unlock"
                  THEN [@ EXCEPT !.writer = FALSE]
                  ELSE [@ EXCEPT !.readers = @ - 1]]
    /\ wk' = [wk EXCEPT
                  ![w].pc = IF Releasable(rw[wk[w].q], unlockCall(wk[w].v))
                            THEN "done" ELSE "fatal",
                  ![w].rel = unlockCall(wk[w].v)]
    /\ UNCHANGED << wLock, qs, popped, seqVars, detVars, extraVars >>

AllDone == \A w \in Workers : wk[w].pc = "done"

\* after the workers: for q.length() > 0 { popped = append(popped, q.pop()) }
DrainPop(q) ==
    /\ AllDone
    /\ length(qs[q]) > 0
    /\ \E r \in { pop(qs[q]) } :
          /\ qs' = [qs EXCEPT ![q] = r.q]
          /\ popped' = [popped EXCEPT ![q] = @ \o r.ret]
    /\ UNCHANGED << wk, rw, wLock, seqVars, detVars, extraVars >>

LockNext ==
    \/ \E w \in Workers : Acquire(w)
    \/ \E w \in Workers : StoreFlag(w)
    \/ \E w \in Workers : PushAppend(w)
    \/ \E w \in Workers : PushUp(w)
    \/ \E w \in Workers : Peek(w)
    \/ \E w \in Workers : SwapFlag(w)
    \/ \E w \in Workers : Release(w)
    \/ \E q \in Queues : DrainPop(q)

SpecWorkers == LockInit /\ [][LockNext]_vars

(***************************************************************************)
(* The comparator and the fee accessors called directly on records, some   *)
(* of them with no fee field populated.                                    *)
(***************************************************************************)
\* the fee forms of the priced queue, a dynamic-fee form whose gas price is
\* the number 0, and the two forms with every fee field nil
CmpForms ==
    FeeForms \cup { << DynamicFeeTx, 0, 1, 4 >>,
                    << LegacyTx, NilInt, NilInt, NilInt >>,
                    << DynamicFeeTx, NilInt, NilInt, NilInt >> }

\* records of one sender: the comparator does not read From
CmpTxs ==
    { Transaction("A", n, f[1], f[2], f[3], f[4]) :
        n \in 0..MaxNonce, f \in CmpForms }

Malformed(t) == t.GasPrice = NilInt /\ t.GasTipCap = NilInt /\ t.GasFeeCap = NilInt

\* the outcome of a call: a panic, or the value returned
Outcome(op, panic, v) ==
    [op |-> op, panic |-> panic, val |-> IF panic THEN << >> ELSE << v >>]

\* Less(i, j) on the heap h: a panic or a boolean
lessCall(h, i, j) ==
    Outcome("Less", maxPriceQueueLessPanics(h, i, j), maxPriceQueueLess(h, i, j))

CmpInit ==
    /\ SeqIdle
    /\ DetIdle
    /\ LockIdle
    /\ ca \in CmpTxs
    /\ cb \in CmpTxs
    /\ cc \in CmpTxs
    /\ cf \in BaseFees
    /\ cres = NoResult
    /\ LoopIdle
    /\ SharedIdle
    /\ SliceIdle

\* cmp(ca, cb, cf)
CmpCall ==
    /\ cres' = Outcome("cmp", cmpPanics(ca, cb, cf), cmp(ca, cb, cf))
    /\ UNCHANGED << ca, cb, cc, cf, notCmpVars >>

\* Less(i, j) for every pair of indices of a maxPriceQueue holding ca, cb, cc
LessCall ==
    /\ cres' = [op |-> "Less", panic |-> FALSE,
                val |-> [i \in 0..2 |-> [j \in 0..2 |->
                           lessCall(MaxPriceHeap(cf, << ca, cb, cc >>), i, j)]]]
    /\ UNCHANGED << ca, cb, cc, cf, notCmpVars >>

\* ca.GetGasPrice(cf)
GetGasPriceCall ==
    /\ cres' = Outcome("GetGasPrice", FALSE, GetGasPrice(ca, cf))
    /\ UNCHANGED << ca, cb, cc, cf, notCmpVars >>

CmpNext == CmpCall \/ LessCall \/ GetGasPriceCall

SpecCmp == CmpInit /\ [][CmpNext]_vars

(***************************************************************************)
(* A caller pushes a list of records to a new accountQueue and then runs   *)
(* one loop on it, an iteration per step: either                           *)
(*     for q.length() > 0 { out = append(out, q.pop()) }                   *)
(* or the loop of prune(n).  lIters counts the removals; the guards cap    *)
(* it at MaxLen + 1, which the loops of the code never reach.              *)
(***************************************************************************)
LoopInit ==
    /\ SeqIdle
    /\ DetIdle
    /\ LockIdle
    /\ CmpIdle
    /\ SharedIdle
    /\ SliceIdle
    /\ lPushed \in SeqsUpTo(AccountTxs, MaxLen)
    /\ lIn = lPushed
    /\ lQ = newAccountQueue
    /\ \E n \in 0..(MaxNonce + 1) :
          \/ lMode = "prune" /\ lN = n
          \/ lMode = "drain" /\ lN = 0
    /\ lPc = "push"
    /\ lOut = << >>
    /\ lIters = 0
    /\ lLen0 = 0

\* q.push(tx) for the next record
LoopPush ==
    /\ lPc = "push"
    /\ lIn # << >>
    /\ lQ' = push(lQ, Head(lIn))
    /\ lIn' = Tail(lIn)
    /\ UNCHANGED << lPushed, lMode, lN, lPc, lOut, lIters, lLen0, notLoopVars >>

\* the loop is entered
LoopStart ==
    /\ lPc = "push"
    /\ lIn = << >>
    /\ lPc' = "loop"
    /\ lLen0' = length(lQ)
    /\ UNCHANGED << lPushed, lIn, lQ, lMode, lN, lOut, lIters, notLoopVars >>

\* one test of q.length() > 0 and, when it holds, out = append(out, q.pop())
DrainStep ==
    /\ lPc = "loop"
    /\ lMode = "drain"
    /\ lIters <= MaxLen
    /\ IF length(lQ) > 0
       THEN \E r \in { pop(lQ) } :
                /\ lQ' = r.q
                /\ lOut' = lOut \o r.ret
                /\ lIters' = lIters + 1
                /\ lPc' = IF r.err = "panic" THEN "panic" ELSE "loop"
       ELSE lPc' = "done" /\ UNCHANGED << lQ, lOut, lIters >>
    /\ UNCHANGED << lPushed, lIn, lMode, lN, lLen0, notLoopVars >>

\* one iteration of the loop of prune: the test on q.peek() and, when it
\* does not break, pruned = append(pruned, q.pop())
PruneStep ==
    /\ lPc = "loop"
    /\ lMode = "prune"
    /\ lIters <= MaxLen
    /\ IF pruneBreaks(peek(lQ), lN)
       THEN lPc' = "done" /\ UNCHANGED << lQ, lOut, lIters >>
       ELSE \E r \in { pruneAppend(lOut, pop(lQ)) } :
                /\ lQ' = r.q
                /\ lOut' = r.ret
                /\ lIters' = lIters + 1
                /\ lPc' = IF r.err = "panic" THEN "panic" ELSE "loop"
    /\ UNCHANGED << lPushed, lIn, lMode, lN, lLen0, notLoopVars >>

LoopNext == LoopPush \/ LoopStart \/ DrainStep \/ PruneStep

SpecLoops == LoopInit /\ [][LoopNext]_vars

\* a call that has started keeps running: every enabled step is taken
SpecLoopsFair == SpecLoops /\ WF_vars(LoopNext)

(***************************************************************************)
(* Two workers on one pricedQueue.  Each makes one call, push(tx) or       *)
(* pop(), and the calls run one heap step at a time:                       *)
(*   push: "append"  h.Push(x): the append to the backing sequence         *)
(*         "len"     j := h.Len() - 1                                      *)
(*         "up"      one iteration of up: the test and the sift swap       *)
(*   pop:  "check"   q.length() == 0                                       *)
(*         "swap"    n := h.Len() - 1; h.Swap(0, n)                        *)
(*         "down"    one iteration of down: the tests and the sift swap    *)
(*         "trunc"   h.Pop(): the truncation of the backing sequence       *)
(* A step that indexes the backing sequence out of range panics, and a     *)
(* panic ends the program.  pricedQueue has no lock of its own; with       *)
(* sCoarse the workers hold the manager's lock from the first step of a    *)
(* call to its last.                                                       *)
(***************************************************************************)
\* four records of pairwise different rank
SharedTxs ==
    { Transaction("A", 0, LegacyTx, 2, NilInt, NilInt),
      Transaction("B", 0, DynamicFeeTx, NilInt, 2, 3),
      Transaction("A", 1, DynamicFeeTx, NilInt, 1, 4),
      Transaction("B", 1, DynamicFeeTx, NilInt, 1, 2) }

InRange(h, i) == 0 <= i /\ i < Len(h.txs)

StepResult(h, i, pc) == [h |-> h, i |-> i, pc |-> pc]

\* an iteration of up that never swaps
upStepBreaks(h, j) == StepResult(h, j, "done")

\* one iteration of up(h, j)
upStep(h, j) ==
    IF Parent(j) = j THEN StepResult(h, j, "done")
    ELSE IF ~InRange(h, j) \/ ~InRange(h, Parent(j)) THEN StepResult(h, j, "panic")
    ELSE IF ~Less(h, j, Parent(j)) THEN StepResult(h, j, "done")
    ELSE StepResult(Swap(h, Parent(j), j), Parent(j), "up")

\* the child down compares with the parent: j2 if j2 < n and Less(j2, j1)
downChild(h, j1, n) == IF j1 + 1 < n /\ Less(h, j1 + 1, j1) THEN j1 + 1 ELSE j1

\* one iteration of down(h, i, n)
downStep(h, i, n) ==
    IF 2 * i + 1 >= n THEN StepResult(h, i, "trunc")
    ELSE IF ~InRange(h, IF 2 * i + 2 < n THEN 2 * i + 2 ELSE 2 * i + 1)
    THEN StepResult(h, i, "panic")
    ELSE IF ~Less(h, downChild(h, 2 * i + 1, n), i) THEN StepResult(h, i, "trunc")
    ELSE StepResult(Swap(h, i, downChild(h, 2 * i + 1, n)),
                    downChild(h, 2 * i + 1, n), "down")

\* the manager's coarse lock lets the call of w start
LockFree(w) == sCoarse => sLock = "free"

\* the lock after a step of w that leaves w at pc
LockAfter(w, pc) ==
    IF ~sCoarse \/ pc = "done" THEN "free" ELSE IF pc = "panic" THEN sLock ELSE w

Running == \A w \in SharedWorkers : sw[w].pc # "panic"

SharedInit ==
    /\ SeqIdle
    /\ DetIdle
    /\ LockIdle
    /\ CmpIdle
    /\ LoopIdle
    /\ SliceIdle
    /\ sCoarse \in BOOLEAN
    /\ sInit \in SeqsUpTo(SharedTxs, MaxLen - 1)
    /\ \E baseFee \in BaseFees : sq = newPricesQueue(baseFee, sInit)
    /\ sw \in [SharedWorkers ->
                 { SharedWorker("pop", << >>, "check") }
                 \cup { SharedWorker("push", << tx >>, "append") : tx \in SharedTxs }]
    /\ sLock = "free"

\* push: heap.Push calls h.Push(x)
ShAppend(w) ==
    /\ Running
    /\ sw[w].pc = "append"
    /\ LockFree(w)
    /\ sq' = QueuePush(sq, sw[w].tx[1])
    /\ sw' = [sw EXCEPT ![w].pc = "len"]
    /\ sLock' = LockAfter(w, "len")
    /\ UNCHANGED << sCoarse, sInit, notSharedVars >>

\* push: heap.Push reads h.Len() - 1 for up
ShLen(w) ==
    /\ Running
    /\ sw[w].pc = "len"
    /\ sw' = [sw EXCEPT ![w].pc = "up", ![w].i = Len(sq.txs) - 1]
    /\ UNCHANGED << sq, sLock, sCoarse, sInit, notSharedVars >>

\* push: one iteration of up
ShUp(w) ==
    /\ Running
    /\ sw[w].pc = "up"
    /\ \E r \in { upStep(sq, sw[w].i) } :
          /\ sq' = r.h
          /\ sw' = [sw EXCEPT ![w].pc = r.pc, ![w].i = r.i]
          /\ sLock' = LockAfter(w, r.pc)
    /\ UNCHANGED << sCoarse, sInit, notSharedVars >>

\* pop: if q.length() == 0 { return nil }
ShCheck(w) ==
    /\ Running
    /\ sw[w].pc = "check"
    /\ LockFree(w)
    /\ \E pc \in { IF pricedLength(sq) = 0 THEN "done" ELSE "swap" } :
          /\ sw' = [sw EXCEPT ![w].pc = pc]
          /\ sLock' = LockAfter(w, pc)
    /\ UNCHANGED << sq, sCoarse, sInit, notSharedVars >>

\* pop: heap.Pop reads n := h.Len() - 1 and calls h.Swap(0, n)
ShSwap(w) ==
    /\ Running
    /\ sw[w].pc = "swap"
    /\ IF Len(sq.txs) - 1 < 0
       THEN sw' = [sw EXCEPT ![w].pc = "panic"] /\ UNCHANGED sq
       ELSE /\ sq' = Swap(sq, 0, Len(sq.txs) - 1)
            /\ sw' = [sw EXCEPT ![w].pc = "down", ![w].i = 0,
                                 ![w].n = Len(sq.txs) - 1]
    /\ UNCHANGED << sLock, sCoarse, sInit, notSharedVars >>

\* pop: one iteration of down
ShDown(w) ==
    /\ Running
    /\ sw[w].pc = "down"
    /\ \E r \in { downStep(sq, sw[w].i, sw[w].n) } :
          /\ sq' = r.h
          /\ sw' = [sw EXCEPT ![w].pc = r.pc, ![w].i = r.i]
    /\ UNCHANGED << sLock, sCoarse, sInit, notSharedVars >>

\* pop: heap.Pop calls h.Pop(), which truncates the backing sequence, and
\* pop returns the removed record
ShTrunc(w) ==
    /\ Running
    /\ sw[w].pc = "trunc"
    /\ IF Len(sq.txs) = 0
       THEN /\ sw' = [sw EXCEPT ![w].pc = "panic"]
            /\ UNCHANGED << sq, sLock >>
       ELSE \E r \in { popAssert(QueuePop(sq)) } :
                /\ sq' = r.q
                /\ sw' = [sw EXCEPT ![w].pc = "done", ![w].ret = r.ret]
                /\ sLock' = LockAfter(w, "done")
    /\ UNCHANGED << sCoarse, sInit, notSharedVars >>

SharedNext ==
    \/ \E w \in SharedWorkers : ShAppend(w)
    \/ \E w \in SharedWorkers : ShLen(w)
    \/ \E w \in SharedWorkers : ShUp(w)
    \/ \E w \in SharedWorkers : ShCheck(w)
    \/ \E w \in SharedWorkers : ShSwap(w)
    \/ \E w \in SharedWorkers : ShDown(w)
    \/ \E w \in SharedWorkers : ShTrunc(w)

SpecShared == SharedInit /\ [][SharedNext]_vars

(***************************************************************************)
(* The queue's slice and the slice a caller holds, with the array behind   *)
(* them.  newPricesQueue stores the caller's slice header (txs:            *)
(* initialTxs) and clear returns the queue's own header (removed =         *)
(* q.queue), so both point into one array until append moves the queue to  *)
(* a new one.  Swap writes cells of the array; Pop and q.queue[:0] shorten *)
(* the slice and leave the cells as they are; append writes the next cell  *)
(* when len < cap and otherwise copies the records to a new, larger array. *)
(***************************************************************************)
\* the most cells the caller's array has past the length of the batch
MaxSpare == 1

\* records with distinct nonces and alternating prices
SliceTxs ==
    { Transaction("A", n, LegacyTx, 1 + (n % MaxPrice), NilInt, NilInt) :
        n \in 0..MaxNonce }

\* a cell never written: the nil *types.Transaction
NilTx == [goType |-> "nil"]

NilCells(n) == [i \in 1..n |-> NilTx]

\* s[0:len(s)]: the records the slice shows
SliceView(s) == SubSeq(s.arr, 1, s.len)

\* the cells of the array from index n on
CellsFrom(s, n) == SubSeq(s.arr, n + 1, Len(s.arr))

Reverse(l) == [i \in 1..Len(l) |-> l[Len(l) + 1 - i]]

\* the capacity append may give a new array: room for the one record, or
\* twice the old capacity as the runtime chooses for small slices
GrowCaps(cap) == { cap + 1, IF cap = 0 THEN 1 ELSE 2 * cap }

\* heap.Push on the slice s: append writes cell len(s) of the same array when
\* len < cap, else of a new array of capacity newCap; up then swaps cells.
\* view is the heap after the call.
appendInPlace(s, view, newCap) ==
    IF s.len < Len(s.arr)
    THEN Slice(view \o CellsFrom(s, s.len + 1), s.len + 1)
    ELSE Slice(view \o NilCells(newCap - (s.len + 1)), s.len + 1)

\* heap.Pop on the slice s, once per record of removed: Swap(0, n-1) leaves
\* the removed record in cell n-1, down swaps cells below it, Pop shortens
\* the slice.  view is the heap after the calls.
removeInPlace(s, view, removed) ==
    Slice(view \o Reverse(removed) \o CellsFrom(s, s.len), Len(view))

\* clear on the slice s: removed = q.queue; q.queue = q.queue[:0]
clearInPlace(s) == [q |-> Slice(s.arr, 0), removed |-> s]

\* the caller's slice once the queue's slice is q: the same array while shared
heldAfter(held, shared, q) ==
    IF shared THEN [held EXCEPT !.arr = q.arr] ELSE held

SliceInit ==
    /\ SeqIdle
    /\ DetIdle
    /\ LockIdle
    /\ CmpIdle
    /\ LoopIdle
    /\ SharedIdle
    /\ \/ /\ bObj = "accountQueue"
          /\ bQueue = Slice(newAccountQueue, 0)
          /\ bBase = 0
          /\ bHeld = NilSlice
          /\ bShared = FALSE
          /\ bGiven = << >>
          /\ bCall = "newAccountQueue"
       \/ \E baseFee \in BaseFees, initialTxs \in SeqsUpTo(SliceTxs, MaxLen),
             spare \in 0..MaxSpare :
              /\ bObj = "pricedQueue"
              /\ bQueue = Slice(newPricesQueue(baseFee, initialTxs).txs
                                    \o NilCells(spare),
                                Len(initialTxs))
              /\ bBase = baseFee
              /\ bHeld = bQueue
              /\ bShared = TRUE
              /\ bGiven = initialTxs
              /\ bCall = "newPricesQueue"

\* the heap of the followed queue after push(tx)
slicePush(tx) ==
    IF bObj = "accountQueue"
    THEN push(SliceView(bQueue), tx)
    ELSE pricedPush(MaxPriceHeap(bBase, SliceView(bQueue)), tx).txs

\* the result of pop() on the followed queue
slicePop ==
    IF bObj = "accountQueue"
    THEN pop(SliceView(bQueue))
    ELSE OnSlice(pricedPop(MaxPriceHeap(bBase, SliceView(bQueue))))

SlPush ==
    \E tx \in SliceTxs, newCap \in GrowCaps(Len(bQueue.arr)) :
        /\ bObj # "none"
        /\ bQueue.len < MaxLen
        /\ \E view \in { slicePush(tx) } :
              bQueue' = appendInPlace(bQueue, view, newCap)
        /\ bShared' = (bShared /\ bQueue.len < Len(bQueue.arr))
        /\ bHeld' = heldAfter(bHeld, bShared', bQueue')
        /\ bCall' = "push"
        /\ UNCHANGED << bObj, bBase, bGiven, notSliceVars >>

SlPop ==
    /\ bObj # "none"
    /\ \E r \in { slicePop } : bQueue' = removeInPlace(bQueue, r.q, r.ret)
    /\ bHeld' = heldAfter(bHeld, bShared, bQueue')
    /\ bCall' = "pop"
    /\ UNCHANGED << bObj, bBase, bShared, bGiven, notSliceVars >>

SlPrune ==
    \E n \in 0..(MaxNonce + 1) :
        /\ bObj = "accountQueue"
        /\ \E r \in { prune(SliceView(bQueue), n) } :
              bQueue' = removeInPlace(bQueue, r.q, r.ret)
        /\ bHeld' = heldAfter(bHeld, bShared, bQueue')
        /\ bCall' = "prune"
        /\ UNCHANGED << bObj, bBase, bShared, bGiven, notSliceVars >>

SlClear ==
    /\ bObj = "accountQueue"
    /\ \E r \in { clearInPlace(bQueue) } :
          /\ bQueue' = r.q
          /\ bHeld' = r.removed
          /\ bGiven' = SliceView(r.removed)
    /\ bShared' = TRUE
    /\ bCall' = "clear"
    /\ UNCHANGED << bObj, bBase, notSliceVars >>

SliceNext == SlPush \/ SlPop \/ SlPrune \/ SlClear

SpecSlices == SliceInit /\ [][SliceNext]_vars

(***************************************************************************)
(* Properties of the sequential model.                                     *)
(***************************************************************************)
Elems(s) == { s[i] : i \in 1..Len(s) }

Count(s, x) == Cardinality({ i \in 1..Len(s) : s[i] = x })

OnAccount(op) == obj = "accountQueue" /\ call.op = op

OnPriced(op) == obj = "pricedQueue" /\ call.op = op

\* C1: on a non-empty accountQueue peek() returns an element whose nonce is
\* the minimum of the queue and whose gas price is the maximum among the
\* elements of that nonce.
C1_PeekIsMinNonceMaxPrice ==
    (OnAccount("peek") /\ aq # << >>) =>
        /\ Len(ret) = 1
        /\ ret[1] \in Elems(aq)
        /\ \A e \in Elems(aq) :
              /\ ret[1].Nonce <= e.Nonce
              /\ e.Nonce = ret[1].Nonce => e.GasPrice <= ret[1].GasPrice

C1_Witness ==
    /\ OnAccount("peek")
    /\ Len(aq) >= 3
    /\ \E e \in Elems(aq) : e.Nonce > ret[1].Nonce
    /\ \E e \in Elems(aq) : e.Nonce = ret[1].Nonce /\ e.GasPrice < ret[1].GasPrice

\* C2: after prune(n) no remaining element has nonce < n, and the returned
\* list is exactly the removed elements, in ascending nonce order.
C2_PruneRemovesBelowInOrder ==
    [][(obj = "accountQueue" /\ call'.op = "prune") =>
          /\ \A e \in Elems(aq') : e.Nonce >= call'.nonce
          /\ \A t \in AccountTxs : Count(aq, t) = Count(aq', t) + Count(ret', t)
          /\ \A i \in 1..(Len(ret') - 1) : ret'[i].Nonce <= ret'[i + 1].Nonce]_vars

C2_Witness ==
    /\ OnAccount("prune")
    /\ Len(ret) >= 2
    /\ ret[1].Nonce < ret[2].Nonce
    /\ aq # << >>
    /\ call.nonce <= MaxNonce

(***************************************************************************)
(* The comparator of section 4.2, written from the specification.          *)
(***************************************************************************)
SpecTipCap(t) == IF t.Type = LegacyTx THEN t.GasPrice ELSE t.GasTipCap

SpecFeeCap(t) == IF t.Type = LegacyTx THEN t.GasPrice ELSE t.GasFeeCap

SpecEffectiveTip(t, F) ==
    IF SpecTipCap(t) < SpecFeeCap(t) - F THEN SpecTipCap(t) ELSE SpecFeeCap(t) - F

RanksHigher(a, b, F) ==
    IF F > 0 /\ SpecEffectiveTip(a, F) # SpecEffectiveTip(b, F)
    THEN SpecEffectiveTip(a, F) > SpecEffectiveTip(b, F)
    ELSE IF SpecFeeCap(a) # SpecFeeCap(b) THEN SpecFeeCap(a) > SpecFeeCap(b)
    ELSE IF SpecTipCap(a) # SpecTipCap(b) THEN SpecTipCap(a) > SpecTipCap(b)
    ELSE a.Nonce < b.Nonce

\* equal fee cap, tip cap and nonce: neither record ranks higher
FullTie(a, b) ==
    /\ SpecFeeCap(a) = SpecFeeCap(b)
    /\ SpecTipCap(a) = SpecTipCap(b)
    /\ a.Nonce = b.Nonce

\* C3 as stated, for records of two different senders: whenever pop() yields
\* a while b is still held, a ranks higher than b, and b does not rank higher
\* than a.
C3_PopOrderIffRanksHigher ==
    [][(obj = "pricedQueue" /\ call'.op = "pop" /\ ret' # << >>) =>
          \A b \in Elems(pq'.txs) :
              b.From # ret'[1].From =>
                  /\ RanksHigher(ret'[1], b, pq.baseFee)
                  /\ ~RanksHigher(b, ret'[1], pq.baseFee)]_vars

\* C3, amended: whenever pop() yields a while b is still held, b does not
\* rank higher than a, and either a ranks higher than b or the two are in a
\* full tie (equal fee cap, tip cap and nonce).
C3_PopNeverSkipsHigher ==
    [][(obj = "pricedQueue" /\ call'.op = "pop" /\ ret' # << >>) =>
          \A b \in Elems(pq'.txs) :
              /\ ~RanksHigher(b, ret'[1], pq.baseFee)
              /\ RanksHigher(ret'[1], b, pq.baseFee) \/ FullTie(ret'[1], b)]_vars

C3_Witness ==
    /\ OnPriced("pop")
    /\ Len(ret) = 1
    /\ pq.baseFee > 0
    /\ Len(pq.txs) >= 2
    /\ \E b \in Elems(pq.txs) :
          /\ RanksHigher(ret[1], b, pq.baseFee)
          /\ SpecFeeCap(b) > SpecFeeCap(ret[1])
    /\ \E b \in Elems(pq.txs) : FullTie(ret[1], b) /\ b # ret[1]

SendersOf(txs) == { t.From : t \in Elems(txs) }

OnePerSender(txs) == \A i, j \in 1..Len(txs) : txs[i].From = txs[j].From => i = j

\* C8 as stated: a pricedQueue never holds two records of one sender.
C8_AtMostOnePerSender == obj = "pricedQueue" => OnePerSender(pq.txs)

\* C8, amended: the queue accepts any record; push and pop keep "at most one
\* record per sender" whenever it held before the call and a pushed record's
\* sender had no record in the queue.
C8_OnePerSenderPreserved ==
    [][(/\ obj = "pricedQueue"
        /\ OnePerSender(pq.txs)
        /\ call'.op = "push" => call'.in[1].From \notin SendersOf(pq.txs)) =>
            OnePerSender(pq'.txs)]_vars

C8_Witness ==
    /\ OnPriced("push")
    /\ Len(pq.txs) = 2
    /\ OnePerSender(pq.txs)
    /\ pq.txs[1] = call.in[1]

\* C9: on an empty queue accountQueue.peek(), accountQueue.pop() and
\* pricedQueue.pop() return nil without failing and leave the queue empty
\* and unchanged; prune(n) on an empty queue returns an empty list.
C9_EmptyGivesNoValue ==
    [][/\ (obj = "accountQueue" /\ aq = << >>
              /\ call'.op \in { "peek", "pop", "prune" }) =>
            (ret' = << >> /\ call'.err = "none" /\ aq' = aq)
       /\ (obj = "pricedQueue" /\ pq.txs = << >> /\ call'.op = "pop") =>
            (ret' = << >> /\ call'.err = "none" /\ pq' = pq)]_vars

C9_Witness == OnAccount("pop") /\ aq = << >> /\ ret = << >> /\ call.err = "none"

C9_WitnessPriced ==
    /\ OnPriced("pop")
    /\ pq.txs = << >>
    /\ ret = << >>
    /\ pq.baseFee > 0

C9_WitnessPrune ==
    OnAccount("prune") /\ aq = << >> /\ ret = << >> /\ call.nonce > 0

\* C10: a value that is not a transaction record, handed to heap.Push on
\* either heap, is refused, leaves contents and order unchanged, and the
\* violation is surfaced to the caller.
C10_WrongKindRefusedAndSurfaced ==
    [][call'.op = "heap.Push" =>
          (aq' = aq /\ pq' = pq /\ call'.err # "none")]_vars

\* the part of C10 the code does satisfy: the value is refused and the queue
\* is left as it was
C10_WrongKindLeavesQueue ==
    [][call'.op = "heap.Push" => (aq' = aq /\ pq' = pq)]_vars

\* C15: clear() on an accountQueue leaves it empty (length() is 0, peek()
\* returns no value) and returns, as a multiset, exactly the contents the
\* queue had immediately before the call.
C15_ClearReturnsEverything ==
    [][(obj = "accountQueue" /\ call'.op = "clear") =>
          /\ call'.err = "none"
          /\ length(aq') = 0
          /\ peek(aq') = << >>
          /\ Len(ret') = Len(aq)
          /\ \A t \in AccountTxs : Count(ret', t) = Count(aq, t)]_vars

\* clear() of a full queue whose returned list is not in nonce order
C15_Witness ==
    /\ OnAccount("clear")
    /\ aq = << >>
    /\ Len(ret) = MaxLen
    /\ ret[2].Nonce > ret[3].Nonce
    /\ ret[1] # ret[2]

\* C16: no push, pop or length on a pricedQueue, and no value handed to its
\* heap, changes the base fee its comparator uses.
C16_BaseFeeFixed ==
    [][obj = "pricedQueue" => pq'.baseFee = pq.baseFee]_vars

\* a pop, with a positive base fee, that moved records in the heap
C16_Witness ==
    /\ OnPriced("pop")
    /\ pq.baseFee > 0
    /\ Len(ret) = 1
    /\ Len(pq.txs) = MaxLen - 1

\* C18: prune(n) keeps every element with nonce >= n and removes every
\* element with nonce < n: the contents afterwards are the contents before
\* minus exactly the elements below n, and those are what it returns.
C18_PruneKeepsAtOrAbove ==
    [][(obj = "accountQueue" /\ call'.op = "prune") =>
          /\ \A t \in AccountTxs :
                Count(aq', t) = IF t.Nonce >= call'.nonce THEN Count(aq, t) ELSE 0
          /\ \A t \in AccountTxs :
                Count(ret', t) = IF t.Nonce < call'.nonce THEN Count(aq, t) ELSE 0]_vars

\* a prune that removed records and kept one whose nonce is the threshold
C18_Witness ==
    /\ OnAccount("prune")
    /\ ret # << >>
    /\ Len(aq) = 2
    /\ \E e \in Elems(aq) : e.Nonce = call.nonce
    /\ \E e \in Elems(aq) : e.Nonce > call.nonce

\* C21: peek() and length() on an accountQueue, and length() on a
\* pricedQueue, leave the contents of the queue, their order in the backing
\* sequence, the lock-mode flag and the lock itself as they were.
C21_PeekLengthReadOnly ==
    [][call'.op \in { "peek", "length" } =>
          /\ aq' = aq
          /\ pq' = pq
          /\ wLock' = wLock
          /\ rw' = rw
          /\ call'.err = "none"]_vars

\* length() on a full accountQueue whose backing sequence is not sorted
C21_Witness ==
    /\ OnAccount("length")
    /\ retN = MaxLen
    /\ Len(aq) = MaxLen
    /\ aq[2].Nonce > aq[3].Nonce

C21_WitnessPeek == OnAccount("peek") /\ Len(ret) = 1 /\ Len(aq) = MaxLen

C21_WitnessPriced == OnPriced("length") /\ retN = MaxLen /\ pq.baseFee > 0

(***************************************************************************)
(* Properties of the two-queue model.                                      *)
(***************************************************************************)
Drained == d1.txs = << >> /\ d2.txs = << >>

\* C4 as stated: two pricedQueues built with the same base fee from the same
\* multiset of records, in any two orders, pop the same sequence of records.
C4_SamePopSequence == Drained => out1 = out2

\* C4, amended: the two pop sequences agree position by position on fee cap,
\* tip cap and nonce (two records at one position are equal or in a full
\* tie), and they are the same sequence when no two different records of the
\* batch are in a full tie.
C4_SamePopSequenceUpToTies ==
    /\ \A i \in 1..Len(out1) :
          i <= Len(out2) => (out1[i] = out2[i] \/ FullTie(out1[i], out2[i]))
    /\ Drained =>
          /\ Len(out1) = Len(out2)
          /\ (\A i, j \in 1..Len(out1) :
                 FullTie(out1[i], out1[j]) => out1[i] = out1[j]) => out1 = out2

C4_Witness ==
    /\ Drained
    /\ Len(out1) >= 3
    /\ out1 # out2
    /\ d1.baseFee > 0
    /\ \E i \in 1..Len(out1) : out1[i].Nonce # out1[1].Nonce

(***************************************************************************)
(* Properties of the worker model.                                         *)
(***************************************************************************)
\* the workers between the return of q.Lock() / q.RLock() and their release
Holding(q, write) ==
    { w \in Workers :
        /\ wk[w].q = q
        /\ wk[w].write = write
        /\ wk[w].pc \in { "store", "op", "up", "unlock", "release" } }

\* C5: unlock() calls Unlock exactly when the calling worker acquired with
\* lock(true) and RUnlock exactly when it acquired with lock(false); no
\* worker ever releases in the wrong mode.
C5_ReleaseMatchesAcquire ==
    \A w \in Workers :
        /\ wk[w].pc # "fatal"
        /\ wk[w].rel # "none" => (wk[w].rel = "Unlock" <=> wk[w].write)
        /\ wk[w].pc = "release" => (unlockCall(wk[w].v) = "Unlock" <=> wk[w].write)

C5_Witness ==
    \E w, r, o \in Workers :
        /\ wk[w].q = wk[r].q /\ wk[o].q = wk[r].q
        /\ wk[w].rel = "Unlock"
        /\ wk[r].rel = "RUnlock"
        /\ ~wk[o].write /\ wk[o].pc = "release"

\* C6: on one accountQueue at most one worker holds exclusive access, and no
\* worker holds shared access while another holds exclusive access.
C6_WritersExclude ==
    \A q \in Queues :
        /\ Cardinality(Holding(q, TRUE)) <= 1
        /\ Holding(q, TRUE) # {} => Holding(q, FALSE) = {}

\* C6, shared access: two workers hold the read lock of one queue at the same
\* time while a writer of that queue waits.
C6_Witness ==
    \E q \in Queues :
        /\ Cardinality(Holding(q, FALSE)) >= 2
        /\ \E w \in Workers : wk[w].q = q /\ wk[w].write /\ wk[w].pc = "lock"

RECURSIVE PushInOrder(_, _, _)
\* the queue after the workers' pushes to q made one after the other, in
\* the order of WorkerOrder from position i on
PushInOrder(q, txs, i) ==
    IF i > Len(WorkerOrder) THEN txs
    ELSE IF wk[WorkerOrder[i]].q = q /\ wk[WorkerOrder[i]].write
    THEN PushInOrder(q, push(txs, wk[WorkerOrder[i]].tx[1]), i + 1)
    ELSE PushInOrder(q, txs, i + 1)

RECURSIVE PopAll(_)
PopAll(txs) ==
    IF txs = << >> THEN << >> ELSE pop(txs).ret \o PopAll(pop(txs).q)

\* C7: a worker waiting for one queue's lock can acquire it whenever no
\* worker holds that queue in a conflicting mode, whatever is held or awaited
\* on the other queue; and once the workers are done and the queues popped
\* until empty, each queue has popped what a sequential run of its pushes
\* would pop.
C7_QueuesIndependent ==
    /\ \A w \in Workers :
          (/\ wk[w].pc = "lock"
           /\ Holding(wk[w].q, TRUE) = {}
           /\ wk[w].write => Holding(wk[w].q, FALSE) = {}) => ENABLED Acquire(w)
    /\ \A q \in Queues :
          (AllDone /\ qs[q] = << >>) =>
              popped[q] = PopAll(PushInOrder(q, newAccountQueue, 1))

C7_Witness ==
    /\ AllDone
    /\ qs["qa"] = << >> /\ qs["qb"] = << >>
    /\ Len(popped["qa"]) = 2
    /\ Len(popped["qb"]) = 1
    /\ wk["w1"].q = "qa" /\ wk["w3"].q = "qa"
    /\ wk["w1"].tx[1].Nonce > wk["w3"].tx[1].Nonce

\* a state of C7's first part: a worker waits for qb while qa is write-locked
C7_WitnessWaiting ==
    \E w, o \in Workers :
        /\ wk[w].pc = "lock" /\ wk[w].q = "qb" /\ wk[w].write
        /\ wk[o].pc = "up" /\ wk[o].q = "qa"
        /\ Holding("qb", TRUE) = {} /\ Holding("qb", FALSE) = {}

\* C21 under shared access: the peek of a worker holding the read lock
\* leaves every queue and every lock-mode flag as it was, also while another
\* worker holds the read lock of the same queue.
C21_PeekUnderSharedAccess ==
    [][\A w \in Workers :
          (wk[w].pc = "op" /\ ~wk[w].write /\ wk'[w].pc = "unlock") =>
              (qs' = qs /\ wLock' = wLock /\ rw' = rw)]_vars

C21_WitnessShared ==
    \E w, o \in Workers :
        /\ w # o
        /\ wk[w].q = wk[o].q
        /\ wk[w].pc = "unlock" /\ ~wk[w].write /\ wk[w].tx # << >>
        /\ wk[o].pc = "op" /\ ~wk[o].write

(***************************************************************************)
(* Properties of the comparator model.                                     *)
(***************************************************************************)
\* the record at index i of the heap LessCall builds
CmpAt(i) == At(<< ca, cb, cc >>, i)

WellFormed(t) ==
    IF t.Type = LegacyTx THEN t.GasPrice # NilInt
    ELSE t.GasTipCap # NilInt /\ t.GasFeeCap # NilInt

\* C11 as stated: whenever a record with no fee field populated reaches cmp
\* or Less, with any base fee and any other operand, the call fails (panics)
\* instead of returning a result.
C11_MalformedFailsLoudly ==
    /\ (cres.op = "cmp" /\ (Malformed(ca) \/ Malformed(cb))) => cres.panic
    /\ cres.op = "Less" =>
          \A i, j \in 0..2 :
              (Malformed(CmpAt(i)) \/ Malformed(CmpAt(j))) => cres.val[i][j].panic

\* what the code does for such a record: cmp panics unless the base fee is
\* zero and both operands have no fee field populated, and then it returns 0
\* and Less orders the two by nonce.
C11_MalformedPanicsUnlessBothNil ==
    /\ (cres.op = "cmp" /\ (Malformed(ca) \/ Malformed(cb))) =>
          IF cf = 0 /\ Malformed(ca) /\ Malformed(cb)
          THEN ~cres.panic /\ cres.val[1] = 0
          ELSE cres.panic
    /\ cres.op = "Less" =>
          \A i, j \in 0..2 :
              (Malformed(CmpAt(i)) \/ Malformed(CmpAt(j))) =>
                  IF cf = 0 /\ Malformed(CmpAt(i)) /\ Malformed(CmpAt(j))
                  THEN /\ ~cres.val[i][j].panic
                       /\ cres.val[i][j].val[1] = (CmpAt(i).Nonce < CmpAt(j).Nonce)
                  ELSE cres.val[i][j].panic

C11_Witness ==
    /\ cres.op = "Less"
    /\ cf > 0
    /\ Malformed(ca) /\ Malformed(cb) /\ WellFormed(cc)
    /\ cres.val[0][1].panic /\ cres.val[2][0].panic

\* C12: for every pair of well-formed records and every base fee, Less(i, j)
\* returns without failing and is true exactly when record i ranks higher
\* than record j in the four-step order of section 4.2 (effective tip when
\* the base fee is positive, then fee cap, then tip cap, then lower nonce).
C12_LessIsFourStepOrder ==
    cres.op = "Less" =>
        \A i, j \in 0..2 :
            (WellFormed(CmpAt(i)) /\ WellFormed(CmpAt(j))) =>
                /\ ~cres.val[i][j].panic
                /\ cres.val[i][j].val[1] = RanksHigher(CmpAt(i), CmpAt(j), cf)

\* the effective tip decides against the fee cap, and with other records the
\* nonce decides
C12_Witness ==
    /\ cres.op = "Less"
    /\ cf > 0
    /\ WellFormed(ca) /\ WellFormed(cb) /\ WellFormed(cc)
    /\ cres.val[0][1].val[1]
    /\ SpecFeeCap(ca) < SpecFeeCap(cb)
    /\ FullTie(ca, [cc EXCEPT !.Nonce = ca.Nonce]) /\ ca.Nonce > cc.Nonce
    /\ cres.val[2][0].val[1]

\* C13: for well-formed records Less(a, a) never holds, and among records
\* of one sender with pairwise distinct nonces exactly one of Less(a, b),
\* Less(b, a) holds for any two of them and Less is transitive, for every
\* base fee.
C13_StrictTotalOrder ==
    (cres.op = "Less" /\ \A i \in 0..2 : WellFormed(CmpAt(i))) =>
        /\ \A i \in 0..2 : ~cres.val[i][i].val[1]
        /\ (\A i, j \in 0..2 :
               /\ CmpAt(i).From = CmpAt(j).From
               /\ i # j => CmpAt(i).Nonce # CmpAt(j).Nonce) =>
              /\ \A i, j \in 0..2 :
                    i # j => (cres.val[i][j].val[1] # cres.val[j][i].val[1])
              /\ \A i, j, k \in 0..2 :
                    (cres.val[i][j].val[1] /\ cres.val[j][k].val[1]) =>
                        cres.val[i][k].val[1]

\* three records of one sender, one pair decided by the nonce alone
C13_Witness ==
    /\ cres.op = "Less"
    /\ cf > 0
    /\ \A i \in 0..2 : WellFormed(CmpAt(i))
    /\ ca.From = cb.From /\ cb.From = cc.From
    /\ ca.Nonce > cb.Nonce /\ cb.Nonce > cc.Nonce
    /\ FullTie(ca, [cb EXCEPT !.Nonce = ca.Nonce])
    /\ cres.val[1][0].val[1] /\ cres.val[0][2].val[1] /\ cres.val[1][2].val[1]

\* the record has a gas price that is present (not nil, not zero)
HasGasPrice(t) == t.GasPrice # NilInt /\ t.GasPrice # 0

SortedByNonceThenPrice(txs) ==
    \A i \in 1..(Len(txs) - 1) :
        \/ txs[i].Nonce < txs[i + 1].Nonce
        \/ txs[i].Nonce = txs[i + 1].Nonce /\ txs[i].GasPrice >= txs[i + 1].GasPrice

SameMultiset(s, t) == \A x \in Elems(s) \cup Elems(t) : Count(s, x) = Count(t, x)

\* C14: records pushed into an accountQueue in any order and then popped
\* until the queue is empty come out as a permutation of the pushed records
\* sorted by nonce ascending and, among equal nonces, gas price descending.
C14_DrainIsSorted ==
    lMode = "drain" =>
        /\ lPc # "panic"
        /\ SortedByNonceThenPrice(lOut)
        /\ lPc = "done" => SameMultiset(lOut, lPushed)

\* three records pushed with the higher nonces first and, of two records of
\* one nonce, the cheaper first
C14_Witness ==
    /\ lMode = "drain"
    /\ lPc = "done"
    /\ Len(lOut) = 3
    /\ lPushed[1].Nonce = lPushed[2].Nonce
    /\ lPushed[1].GasPrice < lPushed[2].GasPrice
    /\ lPushed[3].Nonce < lPushed[1].Nonce
    /\ lOut = << lPushed[3], lPushed[2], lPushed[1] >>

\* C19: the loop of prune(n) makes at most length() removals, never fails,
\* and ends, with the queue empty or its head at a nonce >= n.
C19_PruneTerminates ==
    /\ [](lMode = "prune" =>
             /\ lIters <= lLen0
             /\ lPc # "panic"
             /\ lPc = "done" => (lQ = << >> \/ At(lQ, 0).Nonce >= lN))
    /\ (lMode = "prune") ~> (lPc = "done")

C19_Witness ==
    /\ lMode = "prune"
    /\ lPc = "done"
    /\ lIters >= 2
    /\ lQ # << >>
    /\ lN <= MaxNonce

\* prune(n) that ends on the empty queue after removing every record
C19_WitnessEmptied ==
    lMode = "prune" /\ lPc = "done" /\ lIters = MaxLen /\ lQ = << >>

(***************************************************************************)
(* Properties of the shared-queue model.                                   *)
(***************************************************************************)
Quiescent == \A w \in SharedWorkers : sw[w].pc = "done"

\* the binary-heap property: no element ranks above its parent
HeapOrdered(h) == \A i \in 1..(Len(h.txs) - 1) : ~Less(h, i, Parent(i))

\* how often t was appended by the workers' pushes so far
Appended(t) ==
    Cardinality({ w \in SharedWorkers :
                    sw[w].op = "push" /\ sw[w].pc # "append" /\ sw[w].tx[1] = t })

\* how often t was returned by the workers' pops
Returned(t) == Cardinality({ w \in SharedWorkers : sw[w].ret = << t >> })

\* no record lost, none duplicated
Conserved ==
    \A t \in SharedTxs :
        Count(sq.txs, t) + Returned(t) = Count(sInit, t) + Appended(t)

\* C20, serialized part: when the workers hold one coarse lock around every
\* push and pop, no step fails, no record is lost or duplicated, and the
\* heap order holds whenever the lock is free.
C20_SerializedIsSafe ==
    sCoarse =>
        /\ Running
        /\ Conserved
        /\ sLock = "free" => HeapOrdered(sq)

\* C20, unserialized part: without the lock, interleaved heap steps of a push
\* and a pop leave the queue, after both calls returned, with the heap order
\* violated.
C20_Witness ==
    /\ ~sCoarse
    /\ Quiescent
    /\ ~HeapOrdered(sq)
    /\ \E w \in SharedWorkers : sw[w].op = "push"
    /\ \E w \in SharedWorkers : sw[w].op = "pop"

\* without the lock two pops can both pass the length check and the later
\* one index the emptied backing sequence
C20_WitnessPanic ==
    /\ ~sCoarse
    /\ \E w \in SharedWorkers : sw[w].pc = "panic"

\* with the lock both calls ran, one after the other
C20_WitnessSerialized ==
    /\ sCoarse
    /\ Quiescent
    /\ Len(sq.txs) = MaxLen - 1
    /\ sw["p1"].op = "push" /\ sw["p2"].op = "pop" /\ sw["p2"].ret # << >>

\* with atomic steps a record is never lost or duplicated, with or without
\* the lock
C20_StepsConserve == Conserved

(***************************************************************************)
(* Conservation and the heap invariant in the sequential model.            *)
(***************************************************************************)
\* every record a queue of the sequential model can hold
AllTxs == AccountTxs \cup PricedTxs

\* how often the record t occurs among the values of the list s
CountTx(s, t) == Cardinality({ i \in 1..Len(s) : IsTransaction(s[i]) /\ s[i] = t })

\* the records the last call took out of the queue: what pop, prune and
\* clear returned (peek returns a record the queue still holds)
Removed == IF call.op \in {"pop", "prune", "clear"} THEN ret ELSE << >>

\* C22: a new queue holds exactly its initial batch; every call conserves
\* the records (the queue after the call together with what the call
\* returned is the queue before it together with what the call pushed), so
\* after any sequence of calls the queue and everything returned so far make
\* up the initial batch and everything pushed; length() returns the number
\* of records held.
C22_RecordsConserved ==
    /\ call.op = "newPricesQueue" => SameMultiset(pq.txs, call.in)
    /\ call.op = "newAccountQueue" => aq = << >>
    /\ [][/\ \A t \in AllTxs :
                Count(aq', t) + Count(pq'.txs, t) + Count(Removed', t)
                    = Count(aq, t) + Count(pq.txs, t) + CountTx(call'.in, t)
          /\ Len(aq') + Len(pq'.txs) + Len(Removed')
                  = Len(aq) + Len(pq.txs)
                        + Cardinality({ i \in 1..Len(call'.in) :
                                          IsTransaction(call'.in[i]) })
          /\ call'.op = "length" => retN' = Len(aq') + Len(pq'.txs)]_vars

\* a push of a record the pricedQueue already holds: both copies are kept
C22_Witness ==
    /\ OnPriced("push")
    /\ Len(pq.txs) = MaxLen
    /\ Count(pq.txs, call.in[1]) = 2

C22_WitnessInitial ==
    /\ call.op = "newPricesQueue"
    /\ Len(call.in) = MaxLen
    /\ call.in # pq.txs

C22_WitnessPrune == OnAccount("prune") /\ Len(ret) = 2 /\ Len(aq) = 1

\* C23: in every state the backing sequence of the accountQueue and of the
\* pricedQueue is a binary heap under its Less (no element ranks above its
\* parent), so no element ranks above the one at index 0.
C23_HeapInvariant ==
    /\ HeapOrdered(MinNonceHeap(aq))
    /\ HeapOrdered(pq)
    /\ \A i \in 1..(Len(aq) - 1) : ~Less(MinNonceHeap(aq), i, 0)
    /\ \A i \in 1..(Len(pq.txs) - 1) : ~Less(pq, i, 0)

\* a full pricedQueue after a pop and a push, its second child ranking above
\* its first
C23_Witness ==
    /\ OnPriced("push")
    /\ Len(pq.txs) = MaxLen
    /\ pq.baseFee > 0
    /\ Less(pq, 2, 1)
    /\ Less(pq, 0, 2)

C23_WitnessAccount ==
    /\ OnAccount("pop")
    /\ Len(aq) = MaxLen - 1
    /\ Less(MinNonceHeap(aq), 0, 1)

(***************************************************************************)
(* Properties of the backing-array model.                                  *)
(***************************************************************************)
\* C24: the list clear() returned keeps holding exactly the records that
\* were removed, whatever push, pop or prune calls follow on the queue.
C24_ClearedListStable ==
    bObj = "accountQueue" => SliceView(bHeld) = bGiven

\* the list changes only while it shares the queue's array, and only by a
\* push, pop or prune
C24_ChangesThroughSharedArray ==
    [][(bObj = "accountQueue" /\ bCall' # "clear"
          /\ SliceView(bHeld') # SliceView(bHeld))
        => bShared /\ bCall' \in {"push", "pop", "prune"}]_vars

\* a push after clear wrote the first cell of the returned list
C24_Witness ==
    /\ bObj = "accountQueue"
    /\ bCall = "push"
    /\ bShared
    /\ bQueue.len = 1
    /\ Len(bGiven) = MaxLen
    /\ SliceView(bHeld)[1] # bGiven[1]
    /\ SubSeq(SliceView(bHeld), 2, MaxLen) = SubSeq(bGiven, 2, MaxLen)

\* C25: the sequence passed to newPricesQueue holds the same records in the
\* same positions after construction and after every later push and pop.
C25_InitialBatchUnaltered ==
    bObj = "pricedQueue" => SliceView(bHeld) = bGiven

\* construction leaves a batch that is already heap-ordered as it is, and
\* keeps the records of every batch
C25_ConstructionKeepsHeapOrderedBatch ==
    bCall = "newPricesQueue" =>
        /\ SameMultiset(SliceView(bHeld), bGiven)
        /\ HeapOrdered(MaxPriceHeap(bBase, bGiven)) => SliceView(bHeld) = bGiven

\* construction alone reordered the caller's batch
C25_Witness ==
    /\ bCall = "newPricesQueue"
    /\ Len(bGiven) = MaxLen
    /\ SliceView(bHeld) # bGiven

\* a pop moved the head of the caller's batch to its last position
C25_WitnessPop ==
    /\ bObj = "pricedQueue"
    /\ bCall = "pop"
    /\ bShared
    /\ Len(bGiven) = MaxLen
    /\ bQueue.len = MaxLen - 1
    /\ HeapOrdered(MaxPriceHeap(bBase, bGiven))
    /\ SliceView(bHeld)[MaxLen] = bGiven[1]

====
